---- MODULE Spec2Model ----
(***************************************************************************)
(* A model of c2h2VQE.py: the molecular benchmark (module level code,     *)
(* lines 14-59) and the Grover search benchmark (GroversSearch,           *)
(* grover_oracle, diffusion_operator, lines 73-125).                      *)
(*                                                                         *)
(* A register of n qubits is the vector of its 2^n amplitudes.  Basis     *)
(* state s (0 <= s < 2^n) is the one whose qubit i holds bit i of s.      *)
(* Every gate the source uses (x, h, cz) maps a vector of the form        *)
(* amp / sqrt(2)^k with integer amp to another one of that form, so a     *)
(* register is the record [amp |-> integer vector, k |-> exponent]: the   *)
(* amplitude of s is amp[s] / sqrt(2)^k, its measurement probability      *)
(* amp[s]^2 / 2^k.  Canon keeps the record in lowest terms, so that two   *)
(* registers hold the same amplitudes exactly when the records are equal. *)
(***************************************************************************)
EXTENDS Integers, Sequences, FiniteSets, TLC

\* ------------------------------------------------------------------ bounds
MaxQubits == 3       \* num_qubits ranges over 1..MaxQubits
MaxIter == 2         \* n_iterations ranges over 0..MaxIter
MaxAmp == 1          \* input amplitudes range over -MaxAmp..MaxAmp
ExtraBits == 2       \* an out-of-range marked_item is below 2^(num_qubits+ExtraBits)
NumParams == 2       \* length of x0 (parameter_count, scaled down)
MaxTheta == 1        \* entries of x0 range over -MaxTheta..MaxTheta
MaxClock == 3        \* the timer reads values in 0..MaxClock
MaxOps == 2          \* operations applied in a row to a register under test

\* ------------------------------------------------------- program constants
electron_count == 10
qubit_count == 24
\* the timing loop with a count of two
RepetitionsTwice == 1 + 1

Repetitions == 1     \* range(1) of the timing loop

VARIABLES
    pc,               \* position of the program being run
    num_qubits, marked_item, n_iterations,   \* arguments of GroversSearch
    marked_item_bits, \* the list GroversSearch builds
    q,                \* the qubit register, [amp, k]
    iter,             \* rounds of the kernel's loop completed so far
    ops,              \* the operations applied to q so far, in order
    failed,           \* an operation indexed a qubit the register lacks
    counts,           \* the distribution mz samples from, and the outcome
    in0,              \* the register an operation under test started from
    x0,               \* the ansatz parameters
    clock,            \* the last value the performance counter returned
    start_time, end_time, exp_val,
    rep,              \* repetitions of the timing loop completed
    observed,         \* the arguments of each cudaq.observe call, in order
    printed,          \* the values printed, in order
    events            \* the steps of the molecular benchmark taken, in order

vars == <<pc, num_qubits, marked_item, n_iterations, marked_item_bits, q, iter,
          ops, failed, counts, in0, x0, clock, start_time, end_time, exp_val,
          observed, printed, rep, events>>

groverVars == <<num_qubits, marked_item, n_iterations, marked_item_bits, q, iter,
                ops, failed, counts, in0>>
vqeVars == <<x0, clock, start_time, end_time, exp_val, observed, printed, rep,
             events>>

\* ---------------------------------------------------------------- helpers
Pow2(n) == 2 ^ n

Bit(s, i) == (s \div Pow2(i)) % 2

\* basis state s with the bit of qubit i flipped
FlipBit(s, i) == IF Bit(s, i) = 0 THEN s + Pow2(i) ELSE s - Pow2(i)

States(n) == 0 .. (Pow2(n) - 1)

AllEven(amp) == \A s \in DOMAIN amp : amp[s] % 2 = 0

\* amp / sqrt(2)^k in lowest terms: 2 = sqrt(2)^2 is cancelled while it divides
RECURSIVE Canon(_)
Canon(r) ==
    IF r.k >= 2 /\ AllEven(r.amp)
    THEN Canon([amp |-> [s \in DOMAIN r.amp |-> r.amp[s] \div 2], k |-> r.k - 2])
    ELSE r

\* cudaq.qvector(n): n qubits in |0...0>
qvector(n) == [amp |-> [s \in States(n) |-> IF s = 0 THEN 1 ELSE 0], k |-> 0]

\* ------------------------------------------------------------------ gates
\* x(qubits[i])
XGate(r, i) == [r EXCEPT !.amp = [s \in DOMAIN r.amp |-> r.amp[FlipBit(s, i)]]]

\* h(qubits[i]): |0> -> (|0>+|1>)/sqrt(2), |1> -> (|0>-|1>)/sqrt(2)
HGate(r, i) ==
    Canon([amp |-> [s \in DOMAIN r.amp |->
                      IF Bit(s, i) = 0
                      THEN r.amp[s] + r.amp[FlipBit(s, i)]
                      ELSE r.amp[FlipBit(s, i)] - r.amp[s]],
           k |-> r.k + 1])

\* x(qubits): x on every qubit 0..n-1, in order
RECURSIVE XAllFrom(_, _, _)
XAllFrom(r, i, n) == IF i >= n THEN r ELSE XAllFrom(XGate(r, i), i + 1, n)
XAll(r, n) == XAllFrom(r, 0, n)

\* h on the qubits i..n-1, in order
RECURSIVE HAllFrom(_, _, _)
HAllFrom(r, i, n) == IF i >= n THEN r ELSE HAllFrom(HGate(r, i), i + 1, n)

\* h on every qubit but the first
HAllButFirst(r, n) == HAllFrom(r, 1, n)

\* h(qubits): h on every qubit 0..n-1, in order
HAll(r, n) == HAllFrom(r, 0, n)

\* cz with the control slice one qubit short, qubits[0:-2]
CZLastShortSlice(r, n) ==
    [r EXCEPT !.amp = [s \in DOMAIN r.amp |->
        IF (\A c \in 0 .. (n - 3) : Bit(s, c) = 1) /\ Bit(s, n - 1) = 1
        THEN 0 - r.amp[s] ELSE r.amp[s]]]

\* cz(qubits[0:-1], qubits[-1]): Z on the last qubit controlled on all the
\* others; the phase of s is flipped when the controls 0..n-2 and the target
\* n-1 all hold 1
CZLast(r, n) ==
    [r EXCEPT !.amp = [s \in DOMAIN r.amp |->
        IF (\A c \in 0 .. (n - 2) : Bit(s, c) = 1) /\ Bit(s, n - 1) = 1
        THEN 0 - r.amp[s] ELSE r.amp[s]]]

\* ------------------------------------------------- marked_item_bits (line 80)
Digit(b) == IF b = 0 THEN "0" ELSE "1"

\* the binary digits of v >= 0, most significant first, no leading zeros
RECURSIVE Bin(_)
Bin(v) == IF v < 2 THEN <<Digit(v)>> ELSE Bin(v \div 2) \o <<Digit(v % 2)>>

\* a fixed-width format that keeps only the last w digits
ZeroPadTruncating(str, w) ==
    [j \in 1 .. w |-> IF j + Len(str) - w >= 1 THEN str[j + Len(str) - w] ELSE "0"]

\* the "0{w}" of the format spec: zeros on the left up to width w; a string
\* already w long or longer is left as it is
RECURSIVE ZeroPad(_, _)
ZeroPad(str, w) == IF Len(str) >= w THEN str ELSE ZeroPad(<<"0">> \o str, w)

\* format(v, f"0{w}b")
Format(v, w) == ZeroPad(Bin(v), w)

\* the string left in its order
NotReversed(str) == str

\* str[::-1]
Reversed(str) == [j \in 1 .. Len(str) |-> str[Len(str) + 1 - j]]

\* int(i) of one character
IntOf(ch) == IF ch = "1" THEN 1 ELSE 0

\* [int(i) for i in format(marked_item, f"0{num_qubits}b")[::-1]]
MarkedItemBits(item, n) ==
    [j \in 1 .. Len(Format(item, n)) |-> IntOf(Reversed(Format(item, n))[j])]

\* ------------------------------------------------ grover_oracle (107-115)
\* the loop with the test inverted: if bit: x(qubits[i])
RECURSIVE FlipOnes(_, _, _)
FlipOnes(r, bits, j) ==
    IF j > Len(bits) THEN r
    ELSE FlipOnes(IF bits[j] = 1 THEN XGate(r, j - 1) ELSE r, bits, j + 1)

\* for i, bit in enumerate(marked_item): if not bit: x(qubits[i])
\* (list position j is Python's index j-1)
RECURSIVE FlipZeros(_, _, _)
FlipZeros(r, bits, j) ==
    IF j > Len(bits) THEN r
    ELSE FlipZeros(IF bits[j] = 0 THEN XGate(r, j - 1) ELSE r, bits, j + 1)

\* the oracle reaches x(qubits[i]) with i past the end of the register
OracleOutOfRange(bits, n) == \E j \in 1 .. Len(bits) : bits[j] = 0 /\ j - 1 >= n

\* the oracle without its second loop (lines 113-115)
grover_oracle_no_undo(r, bits, n) == CZLast(FlipZeros(r, bits, 1), n)

grover_oracle(r, bits, n) == FlipZeros(CZLast(FlipZeros(r, bits, 1), n), bits, 1)

\* --------------------------------------------- diffusion_operator (119-125)
\* the operator without its two x(qubits) layers
diffusion_operator_no_x(r, n) == HAll(CZLast(HAll(r, n), n), n)

\* the operator without its closing h(qubits)
diffusion_operator_no_last_h(r, n) == XAll(CZLast(XAll(HAll(r, n), n), n), n)

diffusion_operator(r, n) == HAll(XAll(CZLast(XAll(HAll(r, n), n), n), n), n)

\* ------------------------------------------------------------ idle values
\* a specification of one program holds the other program's variables still
IdleGrover ==
    /\ num_qubits = 0 /\ marked_item = 0 /\ n_iterations = 0
    /\ marked_item_bits = <<>> /\ q = qvector(0) /\ iter = 0 /\ ops = <<>>
    /\ failed = FALSE /\ counts = <<>> /\ in0 = qvector(0)

IdleVQE ==
    /\ x0 = <<>> /\ clock = 0 /\ start_time = 0 /\ end_time = 0
    /\ exp_val = 0 /\ observed = <<>> /\ printed = <<>> /\ rep = 0
    /\ events = <<>>

\* ------------------------------------------- GroversSearch (lines 78-103)
\* the call GroversSearch(num_qubits, marked_item, n_iterations) with
\* marked_item below 2^(num_qubits + extra)
GroverCall(extra) ==
    /\ pc = "GroversSearch"
    /\ num_qubits \in 1 .. MaxQubits
    /\ marked_item \in 0 .. (Pow2(num_qubits + extra) - 1)
    /\ n_iterations \in 0 .. MaxIter
    /\ marked_item_bits = <<>> /\ q = qvector(0) /\ iter = 0 /\ ops = <<>>
    /\ failed = FALSE /\ counts = <<>> /\ in0 = qvector(0)
    /\ IdleVQE

\* line 80, then the kernel is defined, compiled and returned (82-103)
Encode ==
    /\ pc = "GroversSearch"
    /\ marked_item_bits' = MarkedItemBits(marked_item, num_qubits)
    /\ pc' = "kernel"
    /\ UNCHANGED <<num_qubits, marked_item, n_iterations, q, iter, ops, failed,
                   counts, in0>>
    /\ UNCHANGED vqeVars

\* lines 84-86: q = cudaq.qvector(num_qubits); h(q)
KernelStart ==
    /\ pc = "kernel"
    /\ q' = HAll(qvector(num_qubits), num_qubits)
    /\ ops' = Append(ops, "h")
    /\ iter' = 0
    /\ pc' = "loop"
    /\ UNCHANGED <<num_qubits, marked_item, n_iterations, marked_item_bits,
                   failed, counts, in0>>
    /\ UNCHANGED vqeVars

\* the loop running one round too many: iter <= n_iterations
LoopOracleOneMore ==
    /\ pc = "loop"
    /\ iter <= n_iterations
    /\ q' = grover_oracle(q, marked_item_bits, num_qubits)
    /\ ops' = Append(ops, "oracle")
    /\ pc' = "diffusion"
    /\ UNCHANGED <<num_qubits, marked_item, n_iterations, marked_item_bits,
                   iter, failed, counts, in0>>
    /\ UNCHANGED vqeVars

\* lines 89-92: the loop has a round left; grover_oracle(q, marked_item_bits).
\* A bit list longer than the register with a 0 past its end makes the oracle
\* index a qubit that does not exist, and the run ends there.
LoopOracle ==
    /\ pc = "loop"
    /\ iter < n_iterations
    /\ IF OracleOutOfRange(marked_item_bits, num_qubits)
       THEN /\ failed' = TRUE
            /\ pc' = "failed"
            /\ UNCHANGED <<q, ops>>
       ELSE /\ q' = grover_oracle(q, marked_item_bits, num_qubits)
            /\ ops' = Append(ops, "oracle")
            /\ pc' = "diffusion"
            /\ UNCHANGED failed
    /\ UNCHANGED <<num_qubits, marked_item, n_iterations, marked_item_bits,
                   iter, counts, in0>>
    /\ UNCHANGED vqeVars

\* line 95: diffusion_operator(q), which ends the round
LoopDiffusion ==
    /\ pc = "diffusion"
    /\ q' = diffusion_operator(q, num_qubits)
    /\ ops' = Append(ops, "diffusion")
    /\ iter' = iter + 1
    /\ pc' = "loop"
    /\ UNCHANGED <<num_qubits, marked_item, n_iterations, marked_item_bits,
                   failed, counts, in0>>
    /\ UNCHANGED vqeVars

\* the distribution a measurement of all qubits of r samples from:
\* state s has probability prob[s] / denom
Distribution(r) ==
    [prob |-> [s \in DOMAIN r.amp |-> r.amp[s] * r.amp[s]], denom |-> Pow2(r.k)]

\* line 98: the loop is over; mz(q) samples one basis state
Measure ==
    /\ pc = "loop"
    /\ iter >= n_iterations
    /\ \E o \in DOMAIN q.amp :
          /\ q.amp[o] # 0
          /\ counts' = [dist |-> Distribution(q), outcome |-> o]
    /\ ops' = Append(ops, "mz")
    /\ pc' = "done"
    /\ UNCHANGED <<num_qubits, marked_item, n_iterations, marked_item_bits, q,
                   iter, failed, in0>>
    /\ UNCHANGED vqeVars

GroverNext == Encode \/ KernelStart \/ LoopOracle \/ LoopDiffusion \/ Measure

\* GroversSearch and a run of the kernel it returns, marked_item in range
Init == GroverCall(0)
Next == GroverNext
Spec == Init /\ [][Next]_vars

\* the same with marked_item beyond 2^num_qubits - 1 as well
InitWide == GroverCall(ExtraBits)
SpecWide == InitWide /\ [][GroverNext]_vars

\* --------------------- grover_oracle and diffusion_operator on any register
\* the vector with v1 at s1, v2 at s2 and 0 elsewhere
Sparse(n, s1, v1, s2, v2) ==
    [s \in States(n) |-> IF s = s1 THEN v1 ELSE IF s = s2 THEN v2 ELSE 0]

\* the input registers: integer amplitudes, at most two of them not 0
InputVectors(n) ==
    { Sparse(n, s1, v1, s2, v2) :
        s1 \in States(n), s2 \in States(n),
        v1 \in (0 - MaxAmp) .. MaxAmp, v2 \in (0 - MaxAmp) .. MaxAmp }

\* a register under test and the arguments the oracle is called with
InitOracle ==
    /\ pc = "gates"
    /\ num_qubits \in 2 .. MaxQubits
    /\ marked_item \in 0 .. (Pow2(num_qubits) - 1)
    /\ marked_item_bits = MarkedItemBits(marked_item, num_qubits)
    /\ \E amp \in InputVectors(num_qubits) : in0 = [amp |-> amp, k |-> 0]
    /\ q = in0
    /\ n_iterations = 0 /\ iter = 0 /\ ops = <<>> /\ failed = FALSE
    /\ counts = <<>>
    /\ IdleVQE

\* grover_oracle(q, marked_item_bits)
ApplyOracle ==
    /\ pc = "gates"
    /\ Len(ops) < MaxOps
    /\ q' = grover_oracle(q, marked_item_bits, num_qubits)
    /\ ops' = Append(ops, "oracle")
    /\ UNCHANGED <<pc, num_qubits, marked_item, n_iterations, marked_item_bits,
                   iter, failed, counts, in0>>
    /\ UNCHANGED vqeVars

SpecOracle == InitOracle /\ [][ApplyOracle]_vars

\* a register under test; diffusion_operator takes no other argument
InitDiffusion ==
    /\ pc = "gates"
    /\ num_qubits \in 2 .. MaxQubits
    /\ \E amp \in InputVectors(num_qubits) : in0 = [amp |-> amp, k |-> 0]
    /\ q = in0
    /\ marked_item = 0 /\ marked_item_bits = <<>>
    /\ n_iterations = 0 /\ iter = 0 /\ ops = <<>> /\ failed = FALSE
    /\ counts = <<>>
    /\ IdleVQE

\* diffusion_operator(q)
ApplyDiffusion ==
    /\ pc = "gates"
    /\ Len(ops) < MaxOps
    /\ q' = diffusion_operator(q, num_qubits)
    /\ ops' = Append(ops, "diffusion")
    /\ UNCHANGED <<pc, num_qubits, marked_item, n_iterations, marked_item_bits,
                   iter, failed, counts, in0>>
    /\ UNCHANGED vqeVars

SpecDiffusion == InitDiffusion /\ [][ApplyDiffusion]_vars

\* ------------------------------ the molecular benchmark, lines 47 to 59
\* a time or a result not assigned yet
Unset == 0 - 1

Thetas == (0 - MaxTheta) .. MaxTheta

InitVQE ==
    /\ pc = "seed"
    /\ x0 = <<>> /\ clock \in 0 .. MaxClock
    /\ start_time = Unset /\ end_time = Unset /\ exp_val = Unset
    /\ observed = <<>> /\ printed = <<>> /\ rep = 0 /\ events = <<>>
    /\ IdleGrover

\* line 47: np.random.seed(42)
Seed ==
    /\ pc = "seed"
    /\ events' = Append(events, "seed")
    /\ pc' = "draw"
    /\ UNCHANGED <<x0, clock, start_time, end_time, exp_val, observed, printed, rep>>
    /\ UNCHANGED groverVars

\* line 48: x0 = np.random.normal(0, 1, parameter_count)
DrawX0 ==
    /\ pc = "draw"
    /\ x0' \in [1 .. NumParams -> Thetas]
    /\ events' = Append(events, "draw")
    /\ pc' = "start_timer"
    /\ UNCHANGED <<clock, start_time, end_time, exp_val, observed, printed, rep>>
    /\ UNCHANGED groverVars

\* line 54: start_time = timeit.default_timer(); the counter never runs back
StartTimer ==
    /\ pc = "start_timer"
    /\ \E t \in clock .. MaxClock : clock' = t /\ start_time' = t
    /\ rep' = 0
    /\ events' = Append(events, "start_timer")
    /\ pc' = "loop"
    /\ UNCHANGED <<x0, end_time, exp_val, observed, printed>>
    /\ UNCHANGED groverVars

\* lines 55-56: one pass of for x in range(1):
\* exp_val = cudaq.observe(kernel, spin_ham, qubit_count, electron_count, x0).expectation()
Observe ==
    /\ pc = "loop"
    /\ rep < Repetitions
    /\ observed' = Append(observed, [qubit_num |-> qubit_count,
                                     electron_num |-> electron_count,
                                     thetas |-> x0])
    /\ exp_val' \in 0 .. 1
    /\ rep' = rep + 1
    /\ events' = Append(events, "observe")
    /\ UNCHANGED <<pc, x0, clock, start_time, end_time, printed>>
    /\ UNCHANGED groverVars

\* line 57, once the loop is over: end_time = timeit.default_timer()
EndTimer ==
    /\ pc = "loop"
    /\ rep >= Repetitions
    /\ \E t \in clock .. MaxClock : clock' = t /\ end_time' = t
    /\ events' = Append(events, "end_timer")
    /\ pc' = "print"
    /\ UNCHANGED <<x0, start_time, exp_val, observed, printed, rep>>
    /\ UNCHANGED groverVars

\* line 59: print(end_time-start_time)
PrintElapsed ==
    /\ pc = "print"
    /\ printed' = Append(printed, end_time - start_time)
    /\ events' = Append(events, "print")
    /\ pc' = "exit"
    /\ UNCHANGED <<x0, clock, start_time, end_time, exp_val, observed, rep>>
    /\ UNCHANGED groverVars

NextVQE == Seed \/ DrawX0 \/ StartTimer \/ Observe \/ EndTimer \/ PrintElapsed
SpecVQE == InitVQE /\ [][NextVQE]_vars

\* ===================================================================
\* Properties
\* ===================================================================
\* the basis state whose qubit i holds bit i of item, for every qubit i
MarkedState(n, item) ==
    CHOOSE s \in States(n) : \A i \in 0 .. (n - 1) : Bit(s, i) = Bit(item, i)

\* amp[0] + ... + amp[s]
RECURSIVE SumUpTo(_, _)
SumUpTo(amp, s) == IF s < 0 THEN 0 ELSE amp[s] + SumUpTo(amp, s - 1)

Total(amp, n) == SumUpTo(amp, Pow2(n) - 1)

Encoded == pc # "GroversSearch"

OutOfRange == marked_item > Pow2(num_qubits) - 1

\* C1: one call of grover_oracle with the bit list GroversSearch builds for
\* marked_item negates the amplitude of the basis state whose qubit i holds
\* bit i of marked_item and leaves every other amplitude as it was.
C1_OracleFlipsMarkedOnly ==
    ops = <<"oracle">> =>
        /\ q.k = in0.k
        /\ \A s \in States(num_qubits) :
              q.amp[s] = IF s = MarkedState(num_qubits, marked_item)
                         THEN 0 - in0.amp[s] ELSE in0.amp[s]

C1_Witness ==
    /\ ops = <<"oracle">>
    /\ num_qubits = 3 /\ marked_item = 5
    /\ in0.amp[5] = 1 /\ in0.amp[2] = 1
    /\ q.amp[5] = 0 - 1 /\ q.amp[2] = 1

\* C2, as the code has it: one call of diffusion_operator takes the amplitude
\* a_x of every basis state x to a_x - 2*mean(a), the negative of the inversion
\* about the mean.  With N = 2^num_qubits states and the output amplitude
\* q.amp[x] / 2^(q.k/2): N * q.amp[x] = 2^(q.k/2) * (N*a_x - 2*sum(a)).
C2_DiffusionIsMinusInversion ==
    ops = <<"diffusion">> =>
        /\ q.k % 2 = 0
        /\ \A x \in States(num_qubits) :
              Pow2(num_qubits) * q.amp[x] =
                 Pow2(q.k \div 2)
                   * (Pow2(num_qubits) * in0.amp[x] - 2 * Total(in0.amp, num_qubits))

\* C2 as claimed: every output amplitude equals 2*mean(a) - a_x.
C2_Original ==
    ops = <<"diffusion">> =>
        /\ q.k % 2 = 0
        /\ \A x \in States(num_qubits) :
              Pow2(num_qubits) * q.amp[x] =
                 Pow2(q.k \div 2)
                   * (2 * Total(in0.amp, num_qubits) - Pow2(num_qubits) * in0.amp[x])

C2_Witness ==
    /\ ops = <<"diffusion">>
    /\ num_qubits = 2
    /\ in0.amp = Sparse(2, 0, 1, 3, 1)
    /\ q = [amp |-> Sparse(2, 1, 0 - 1, 2, 0 - 1), k |-> 0]

\* C3: for marked_item in 0 .. 2^num_qubits - 1 the list GroversSearch builds
\* has num_qubits entries, entry i being (marked_item div 2^i) mod 2.
C3_LittleEndianBits ==
    Encoded =>
        /\ Len(marked_item_bits) = num_qubits
        /\ \A i \in 0 .. (num_qubits - 1) :
              marked_item_bits[i + 1] = (marked_item \div (2 ^ i)) % 2

C3_Witness ==
    /\ Encoded /\ num_qubits = 3 /\ marked_item = 5
    /\ marked_item_bits = <<1, 0, 1>>

\* C4: with 2 qubits and 1 iteration the measured distribution has probability
\* 1 at the marked basis state and 0 at every other one; with 0 iterations
\* every one of the 4 states has probability 1/4.
C4_TwoQubitsOneIteration ==
    (pc = "done" /\ num_qubits = 2) =>
        /\ n_iterations = 1 =>
              \A s \in States(2) :
                 /\ s = MarkedState(2, marked_item) =>
                       counts.dist.prob[s] = counts.dist.denom
                 /\ s # MarkedState(2, marked_item) =>
                       /\ counts.dist.prob[s] = 0
                       /\ counts.dist.prob[MarkedState(2, marked_item)]
                             > counts.dist.prob[s]
        /\ n_iterations = 0 =>
              \A s \in States(2) : 4 * counts.dist.prob[s] = counts.dist.denom

C4_Witness ==
    /\ pc = "done" /\ num_qubits = 2 /\ n_iterations = 1 /\ marked_item = 0
    /\ counts.outcome = 0
    /\ counts.dist.prob[0] = counts.dist.denom

\* h, then n rounds of (oracle, diffusion), then mz
RECURSIVE Rounds(_)
Rounds(n) == IF n = 0 THEN <<>> ELSE <<"oracle", "diffusion">> \o Rounds(n - 1)

Circuit(n) == <<"h">> \o Rounds(n) \o <<"mz">>

IsPrefix(a, b) == Len(a) <= Len(b) /\ \A j \in 1 .. Len(a) : a[j] = b[j]

\* C5: the operations the kernel applies are, in order, h on all qubits, then
\* n_iterations rounds of one grover_oracle followed by one
\* diffusion_operator, then one mz, and nothing after it.
C5_GateSequence ==
    /\ IsPrefix(ops, Circuit(n_iterations))
    /\ (pc = "done") <=> (ops = Circuit(n_iterations))
    /\ ~failed

C5_Witness ==
    /\ pc = "done" /\ n_iterations = 2
    /\ ops = <<"h", "oracle", "diffusion", "oracle", "diffusion", "mz">>

\* C6: with n_iterations = 0 no oracle and no diffusion operator is applied
\* and every basis state has measurement probability 1 / 2^num_qubits.
C6_ZeroIterationsUniform ==
    (pc = "done" /\ n_iterations = 0) =>
        /\ ops = <<"h", "mz">>
        /\ \A s \in States(num_qubits) :
              Pow2(num_qubits) * counts.dist.prob[s] = counts.dist.denom

C6_Witness ==
    /\ pc = "done" /\ n_iterations = 0 /\ num_qubits = 3 /\ marked_item = 5
    /\ counts.outcome = 6
    /\ counts.dist.prob[6] = 1 /\ counts.dist.denom = 8

\* C7, as the code has it: for marked_item > 2^num_qubits - 1 the encoding
\* raises no error and cuts nothing off: marked_item_bits holds all the
\* little-endian bits of marked_item, more than num_qubits of them, and a run
\* fails on a qubit index >= num_qubits exactly when it reaches the oracle
\* and one of the bits at a position >= num_qubits is 0.
C7_NoTruncation ==
    (Encoded /\ OutOfRange) =>
        /\ Len(marked_item_bits) > num_qubits
        /\ Pow2(Len(marked_item_bits) - 1) <= marked_item
        /\ marked_item < Pow2(Len(marked_item_bits))
        /\ \A j \in 1 .. Len(marked_item_bits) :
              marked_item_bits[j] = Bit(marked_item, j - 1)
        /\ failed =>
              \E i \in num_qubits .. (Len(marked_item_bits) - 1) :
                 Bit(marked_item, i) = 0
        /\ (pc \in {"diffusion", "done"} /\ n_iterations > 0) =>
              \A i \in num_qubits .. (Len(marked_item_bits) - 1) :
                 Bit(marked_item, i) = 1

\* C7 as claimed: the value is cut to num_qubits bits, so the list has
\* num_qubits entries and the oracle never indexes past the register.
C7_Original ==
    (Encoded /\ OutOfRange) =>
        /\ Len(marked_item_bits) = num_qubits
        /\ ~OracleOutOfRange(marked_item_bits, num_qubits)
        /\ ~failed

C7_Witness ==
    /\ pc = "failed" /\ failed
    /\ num_qubits = 2 /\ marked_item = 8
    /\ marked_item_bits = <<0, 0, 0, 1>>

\* C8: two calls of grover_oracle in a row with the same bit list leave the
\* register as it was.
C8_OracleSelfInverse ==
    ops = <<"oracle", "oracle">> => q = in0

C8_Witness ==
    /\ ops = <<"oracle", "oracle">>
    /\ num_qubits = 3 /\ marked_item = 2
    /\ in0.amp[2] = 1 /\ in0.amp[7] = 0 - 1
    /\ q = in0

\* C9: two calls of diffusion_operator in a row leave every amplitude as it
\* was.
C9_DiffusionSelfInverse ==
    ops = <<"diffusion", "diffusion">> => q = in0

C9_Witness ==
    /\ ops = <<"diffusion", "diffusion">>
    /\ num_qubits = 3
    /\ in0.amp[0] = 1 /\ in0.amp[5] = 0 - 1
    /\ q = in0

VQESteps == <<"seed", "draw", "start_timer", "observe", "end_timer", "print">>

C10_State ==
    /\ IsPrefix(events, VQESteps)
    /\ Len(observed) <= 1
    /\ \A j \in 1 .. Len(observed) : observed[j].thetas = x0
    /\ pc \in {"print", "exit"} => Len(observed) = 1
    /\ Len(printed) <= 1
    /\ (pc = "exit") <=> (Len(printed) = 1)
    /\ Len(printed) = 1 => events = VQESteps

C10_Step ==
    Len(events) >= 2 => x0' = x0

\* C10: cudaq.observe is called exactly once, after the start timer is read
\* and before the end timer is read, with the x0 drawn at line 48; no step
\* changes x0 once drawn; the one print comes after the end timer is read.
C10_ObserveOnceWithX0 == [](C10_State) /\ [][C10_Step]_vars

C10_Witness ==
    /\ pc = "exit"
    /\ x0 = <<1, 0 - 1>>
    /\ observed = <<[qubit_num |-> 24, electron_num |-> 10, thetas |-> <<1, 0 - 1>>]>>
    /\ start_time = 1 /\ end_time = 3 /\ printed = <<2>>

====
